---- MODULE Spec2Model ----
(***************************************************************************)
(* Model of mqtt_filter.py (MeshtasticMQTTFilter): the key ring built by   *)
(* __init__, the trial decryption of _decrypt_packet, the admission check  *)
(* _check_ok_to_mqtt and the on_message handler that drives them.          *)
(*                                                                         *)
(* Bytes are 3-bit values (0..7), a protobuf field is a tag byte followed by one  *)
(* value byte, and the AES-CTR keystream is a fixed mixing function of     *)
(* key, nonce and position; strings that the code slices (topics) are      *)
(* sequences of one-character strings.                                     *)
(***************************************************************************)
EXTENDS Integers, Sequences, FiniteSets, TLC

VARIABLES
    keys,               \* self.keys: the ring, a sequence of (name, key)
    input_topic,        \* self.input_topic
    output_topic,       \* self.output_topic
    show_stats,         \* self.show_stats
    last_stats_time,    \* self.last_stats_time
    stats,              \* self.stats
    exempt_nodes,       \* the exempt-node set the operator asks for
    allow_no_bitfield,  \* the allow-no-bitfield flag the operator asks for
    publish_count,      \* number of client.publish calls so far
    last,               \* the last on_message call: its message and what it did
    reject_log_file,    \* the rejection-record path the operator asks for
    reject_log,         \* the entries written to the rejection record
    call                \* the last direct call of a helper: arguments, result

vars == <<keys, input_topic, output_topic, show_stats, last_stats_time, stats,
          exempt_nodes, allow_no_bitfield, publish_count, last,
          reject_log_file, reject_log, call>>

----------------------------------------------------------------------------
(* Bounds *)

\* on_message is called at most this many times in a behaviour
MaxMsgs == 2

\* the timed statistics summary is due at most this many times in a behaviour
MaxTimedSummaries == 1

\* a topic handed to the topic rewrite has at most this many characters
MaxTopicLen == 3

\* the operator supplies at most this many channel keys
MaxChannelKeys == 2

\* the operator names at most this many exempt nodes
MaxExemptNodes == 2

----------------------------------------------------------------------------
(* Bytes and the stream cipher *)

Bit(a, i) == (a \div (2 ^ i)) % 2

\* bitwise exclusive or of two bytes
Xor(a, b) ==
    ((Bit(a, 0) + Bit(b, 0)) % 2)
    + 2 * ((Bit(a, 1) + Bit(b, 1)) % 2)
    + 4 * ((Bit(a, 2) + Bit(b, 2)) % 2)

\* bitwise and of two bytes
BitAnd(a, b) ==
    (Bit(a, 0) * Bit(b, 0))
    + 2 * (Bit(a, 1) * Bit(b, 1))
    + 4 * (Bit(a, 2) * Bit(b, 2))

\* algorithms.AES(key): accepts 128, 192 and 256 bit keys, raises ValueError
\* for any other length
AESKeyLengths == {16, 24, 32}

\* byte i of the counter-mode keystream of (key, nonce): the key decides the
\* start and the stride, so the streams of two keys differ by amounts that
\* change with the position
Keystream(key, nonce, i) ==
    (3 * key.val + 5 * nonce[1] + 2 * nonce[2] + i * (1 + 2 * key.val)) % 8

\* decryptor.update(data) + decryptor.finalize(): counter mode, the same
\* length as the input (encryption is the same operation)
CTR(key, nonce, data) ==
    [i \in 1..Len(data) |-> Xor(data[i], Keystream(key, nonce, i))]

----------------------------------------------------------------------------
(* Keys *)

\* DEFAULT_KEY = base64.b64decode("1PG7OiApB1nwvP+rz05pAQ=="), 16 bytes
DEFAULT_KEY == [len |-> 16, val |-> 1]

K32 == [len |-> 32, val |-> 2]
K16 == [len |-> 16, val |-> 4]
KShort == [len |-> 5, val |-> 6]
\* a key no ring of the model holds
KForeign == [len |-> 32, val |-> 7]

\* base64.b64decode(s): [ok, key]; ok = FALSE when it raises binascii.Error
b64decode(s) ==
    CASE s = "b64_k32" -> [ok |-> TRUE, key |-> K32]
      [] s = "b64_k16" -> [ok |-> TRUE, key |-> K16]
      [] s = "b64_short" -> [ok |-> TRUE, key |-> KShort]
      [] OTHER -> [ok |-> FALSE, key |-> [len |-> 0, val |-> 0]]

\* the channel names, and their number as it enters the digest
ChannelNames == {"", "LongFast", "Other"}

ChannelNumber(channel_name) ==
    CASE channel_name = "" -> 0
      [] channel_name = "LongFast" -> 1
      [] OTHER -> 2

\* hashlib.sha256(base_key + channel_bytes).digest(): 32 bytes
sha256(base_key, channel_name) ==
    [len |-> 32,
     val |-> (5 * base_key.val + 3 * ChannelNumber(channel_name) + base_key.len) % 8]

\* _derive_key(base_key, channel_name)
derive_key(base_key, channel_name) ==
    IF channel_name # ""
    THEN sha256(base_key, channel_name)
    ELSE base_key

\* the key selection without the derivation: every trial uses the ring's key
\* as it is
EffectiveKeyNeverDerived(base_key, channel_name) == base_key

\* the key selection without its exception for "LongFast": every trial goes
\* through _derive_key
EffectiveKeyAlwaysDerived(base_key, channel_name) ==
    derive_key(base_key, channel_name)

\* the key selection at the head of the trial loop of _decrypt_packet
EffectiveKey(base_key, channel_name) ==
    IF channel_name # "" /\ channel_name \notin {"LongFast", ""}
    THEN derive_key(base_key, channel_name)
    ELSE base_key

\* the custom keys of a loop that ends at the first entry that does not
\* decode
RECURSIVE CustomKeysStopAtInvalid(_, _)
CustomKeysStopAtInvalid(channel_keys, i) ==
    IF i >= Len(channel_keys) THEN <<>>
    ELSE LET d == b64decode(channel_keys[i + 1])
         IN IF d.ok
            THEN <<[name |-> <<"custom", i>>, key |-> d.key]>>
                 \o CustomKeysStopAtInvalid(channel_keys, i + 1)
            ELSE <<>>

\* the custom keys of __init__, entry i of channel_keys named ("custom", i)
RECURSIVE CustomKeys(_, _)
CustomKeys(channel_keys, i) ==
    IF i >= Len(channel_keys) THEN <<>>
    ELSE LET d == b64decode(channel_keys[i + 1])
         IN (IF d.ok THEN <<[name |-> <<"custom", i>>, key |-> d.key]>> ELSE <<>>)
            \o CustomKeys(channel_keys, i + 1)

\* self.keys as __init__ builds it
BuildKeys(decrypt_default, channel_keys) ==
    (IF decrypt_default
     THEN <<[name |-> <<"default", 0>>, key |-> DEFAULT_KEY]>>
     ELSE <<>>)
    \o CustomKeys(channel_keys, 0)

----------------------------------------------------------------------------
(* Strings the code slices: sequences of one-character strings *)

\* str.rstrip(chars): drop every trailing character that is in chars
RECURSIVE rstrip(_, _)
rstrip(s, chars) ==
    IF Len(s) > 0 /\ s[Len(s)] \in chars
    THEN rstrip(SubSeq(s, 1, Len(s) - 1), chars)
    ELSE s

\* the positions at which old occurs in s
Occurrences(s, old) ==
    {i \in 1..(Len(s) - Len(old) + 1) : SubSeq(s, i, i + Len(old) - 1) = old}

\* str.replace(old, new, 1): the first occurrence of old, wherever it is
replace1(s, old, new) ==
    IF Occurrences(s, old) = {}
    THEN s
    ELSE LET i == CHOOSE j \in Occurrences(s, old) :
                      \A k \in Occurrences(s, old) : j <= k
         IN SubSeq(s, 1, i - 1) \o new \o SubSeq(s, i + Len(old), Len(s))

\* the output topic on_message publishes to
RewriteTopic(topic, in_topic, out_topic) ==
    replace1(topic, rstrip(in_topic, {"/", "#"}), rstrip(out_topic, {"/", "#"}))

----------------------------------------------------------------------------
(* mesh_pb2.Data and its wire form *)

\* a Data message with no field set
NoData == [portnum |-> 0, has_bitfield |-> FALSE, bitfield |-> 0]

\* field tags on the wire
TagPortnum == {1}
TagBitfield == {2}
\* fields Data does not read: skipped with their value
TagSkipped == {3, 4, 5}
\* tag 0 and tags with an illegal wire type: DecodeError

\* Data.SerializeToString(): portnum is written when nonzero, the optional
\* bitfield when present
SerializeData(d) ==
    (IF d.portnum # 0 THEN <<1, d.portnum>> ELSE <<>>)
    \o (IF d.has_bitfield THEN <<2, d.bitfield>> ELSE <<>>)

\* Data.ParseFromString(bytes): [ok, data]; ok = FALSE when it raises
RECURSIVE ParseFields(_, _)
ParseFields(bytes, acc) ==
    IF Len(bytes) = 0 THEN [ok |-> TRUE, data |-> acc]
    ELSE IF Len(bytes) = 1 THEN [ok |-> FALSE, data |-> NoData]
    ELSE LET tag == bytes[1]
             v == bytes[2]
             rest == SubSeq(bytes, 3, Len(bytes))
         IN CASE tag \in TagPortnum ->
                    ParseFields(rest, [acc EXCEPT !.portnum = v])
              [] tag \in TagBitfield ->
                    ParseFields(rest, [acc EXCEPT !.has_bitfield = TRUE,
                                                  !.bitfield = v])
              [] tag \in TagSkipped -> ParseFields(rest, acc)
              [] OTHER -> [ok |-> FALSE, data |-> NoData]

ParseData(bytes) == ParseFields(bytes, NoData)

----------------------------------------------------------------------------
(* mesh_pb2.MeshPacket and mqtt_pb2.ServiceEnvelope *)

\* packet.HasField('decoded') / packet.HasField('encrypted')
HasField(packet, field) ==
    IF field = "decoded" THEN packet.has_decoded ELSE packet.has_encrypted

\* packet.decoded.CopyFrom(data): decoded and encrypted are members of one
\* oneof, so setting decoded unsets encrypted
CopyFromDecoded(packet, data) ==
    [packet EXCEPT !.has_decoded = TRUE, !.decoded = data,
                   !.has_encrypted = FALSE, !.encrypted = <<>>]

\* packet.ClearField('encrypted')
ClearFieldEncrypted(packet) ==
    [packet EXCEPT !.has_encrypted = FALSE, !.encrypted = <<>>]

\* a MeshPacket with no field set, which is also envelope.packet of an
\* envelope that carries none
NoPacket ==
    [id |-> 0, from |-> 0, has_decoded |-> FALSE, decoded |-> NoData,
     has_encrypted |-> FALSE, encrypted |-> <<>>]

NoEnvelope == [channel_id |-> "", packet |-> NoPacket]

\* envelope.ParseFromString(msg.payload): [ok, envelope]; ok = FALSE when
\* the bytes are no ServiceEnvelope and it raises DecodeError
ParseEnvelope(payload) ==
    IF payload.wellformed
    THEN [ok |-> TRUE, envelope |-> payload.envelope]
    ELSE [ok |-> FALSE, envelope |-> NoEnvelope]

----------------------------------------------------------------------------
(* _decrypt_packet *)

\* packet_id.to_bytes(8, 'little') + from_id.to_bytes(8, 'little'): the two
\* 8-byte words of the nonce
Nonce(packet_id, from_id) == <<packet_id, from_id>>

\* one pass of the trial loop with the ring's key handed to the cipher as it
\* is, whatever the channel name
TryKeyBaseKey(base_key, packet, channel_name) ==
    LET nonce == Nonce(packet.id, packet.from)
    IN IF base_key.len \notin AESKeyLengths
       THEN [ok |-> FALSE, data |-> NoData]
       ELSE LET decrypted == CTR(base_key, nonce, packet.encrypted)
                parsed == ParseData(decrypted)
            IN IF ~parsed.ok \/ parsed.data.portnum = 0
               THEN [ok |-> FALSE, data |-> NoData]
               ELSE [ok |-> TRUE, data |-> parsed.data]

\* one pass of the trial loop: [ok, data]; ok = FALSE when the body raises
\* (AES refuses the key length, the plaintext does not parse, portnum is 0)
\* and the loop continues with the next key
TryKey(base_key, packet, channel_name) ==
    LET key == EffectiveKey(base_key, channel_name)
        nonce == Nonce(packet.id, packet.from)
    IN IF key.len \notin AESKeyLengths
       THEN [ok |-> FALSE, data |-> NoData]
       ELSE LET decrypted == CTR(key, nonce, packet.encrypted)
                parsed == ParseData(decrypted)
            IN IF ~parsed.ok \/ parsed.data.portnum = 0
               THEN [ok |-> FALSE, data |-> NoData]
               ELSE [ok |-> TRUE, data |-> parsed.data]

\* a trial loop that does not return at its first success: the position of
\* the last key that yields a Data with nonzero portnum
RECURSIVE TrialLoopLast(_, _, _, _)
TrialLoopLast(ring, i, packet, channel_name) ==
    IF i > Len(ring) THEN 0
    ELSE LET later == TrialLoopLast(ring, i + 1, packet, channel_name)
         IN IF later # 0 THEN later
            ELSE IF TryKey(ring[i].key, packet, channel_name).ok THEN i
            ELSE 0

\* the trial loop from ring position i on: the position of the first key
\* that yields a Data with nonzero portnum, 0 when the ring is exhausted
RECURSIVE TrialLoop(_, _, _, _)
TrialLoop(ring, i, packet, channel_name) ==
    IF i > Len(ring) THEN 0
    ELSE IF TryKey(ring[i].key, packet, channel_name).ok THEN i
    ELSE TrialLoop(ring, i + 1, packet, channel_name)

\* _decrypt_packet setting the decoded Data beside the ciphertext: decoded
\* as a field of its own and no ClearField
decrypt_packet_keeps_encrypted(ring, packet, channel_name, st) ==
    IF ~HasField(packet, "encrypted") \/ Len(packet.encrypted) = 0
    THEN [result |-> FALSE, packet |-> packet, stats |-> st, key_index |-> 0]
    ELSE LET i == TrialLoop(ring, 1, packet, channel_name)
         IN IF i # 0
            THEN [result |-> TRUE,
                  packet |-> [packet EXCEPT
                                !.has_decoded = TRUE,
                                !.decoded = TryKey(ring[i].key, packet,
                                                   channel_name).data],
                  stats |-> [st EXCEPT !.decrypted = @ + 1],
                  key_index |-> i]
            ELSE [result |-> FALSE, packet |-> packet,
                  stats |-> [st EXCEPT !.decryption_failed = @ + 1],
                  key_index |-> 0]

\* _decrypt_packet without its test for a missing or empty ciphertext
decrypt_packet_no_guard(ring, packet, channel_name, st) ==
    LET i == TrialLoop(ring, 1, packet, channel_name)
    IN IF i # 0
       THEN [result |-> TRUE,
             packet |-> ClearFieldEncrypted(CopyFromDecoded(packet,
                            TryKey(ring[i].key, packet, channel_name).data)),
             stats |-> [st EXCEPT !.decrypted = @ + 1],
             key_index |-> i]
       ELSE [result |-> FALSE, packet |-> packet,
             stats |-> [st EXCEPT !.decryption_failed = @ + 1],
             key_index |-> 0]

\* _decrypt_packet counting a failure for every key that fails, not one for
\* the exhausted ring
decrypt_packet_count_per_key(ring, packet, channel_name, st) ==
    IF ~HasField(packet, "encrypted") \/ Len(packet.encrypted) = 0
    THEN [result |-> FALSE, packet |-> packet, stats |-> st, key_index |-> 0]
    ELSE LET i == TrialLoop(ring, 1, packet, channel_name)
         IN IF i # 0
            THEN [result |-> TRUE,
                  packet |-> ClearFieldEncrypted(CopyFromDecoded(packet,
                                 TryKey(ring[i].key, packet, channel_name).data)),
                  stats |-> [st EXCEPT !.decrypted = @ + 1,
                                       !.decryption_failed = @ + (i - 1)],
                  key_index |-> i]
            ELSE [result |-> FALSE, packet |-> packet,
                  stats |-> [st EXCEPT !.decryption_failed = @ + Len(ring)],
                  key_index |-> 0]

\* _decrypt_packet(packet, channel_name) on ring and counters st:
\* [result, packet, stats, key_index]
decrypt_packet(ring, packet, channel_name, st) ==
    IF ~HasField(packet, "encrypted") \/ Len(packet.encrypted) = 0
    THEN [result |-> FALSE, packet |-> packet, stats |-> st, key_index |-> 0]
    ELSE LET i == TrialLoop(ring, 1, packet, channel_name)
         IN IF i # 0
            THEN [result |-> TRUE,
                  packet |-> ClearFieldEncrypted(CopyFromDecoded(packet,
                                 TryKey(ring[i].key, packet, channel_name).data)),
                  stats |-> [st EXCEPT !.decrypted = @ + 1],
                  key_index |-> i]
            ELSE [result |-> FALSE, packet |-> packet,
                  stats |-> [st EXCEPT !.decryption_failed = @ + 1],
                  key_index |-> 0]

----------------------------------------------------------------------------
(* _check_ok_to_mqtt *)

\* the bit test as a truth test of the whole bitfield
OkToMqttAnyBit(bitfield) == bitfield # 0

\* bool(packet.decoded.bitfield & 0x01)
OkToMqttBit(bitfield) == BitAnd(bitfield, 1) # 0

\* the check without its test for decoded data: a packet without decoded
\* Data falls to the bitfield test
check_ok_to_mqtt_no_decoded_test(packet, st) ==
    IF packet.decoded.has_bitfield
    THEN LET is_ok == OkToMqttBit(packet.decoded.bitfield)
         IN [is_ok |-> is_ok,
             stats |-> IF ~is_ok
                       THEN [st EXCEPT !.rejected_bitfield_disabled = @ + 1]
                       ELSE st]
    ELSE [is_ok |-> FALSE,
          stats |-> [st EXCEPT !.rejected_no_bitfield = @ + 1]]

\* the check without the return of its first branch: a packet without
\* decoded Data is counted as encrypted and then as having no bitfield
check_ok_to_mqtt_fall_through(packet, st) ==
    LET st1 == IF ~HasField(packet, "decoded")
               THEN [st EXCEPT !.rejected_encrypted = @ + 1]
               ELSE st
    IN IF packet.decoded.has_bitfield
       THEN LET is_ok == OkToMqttBit(packet.decoded.bitfield)
            IN [is_ok |-> is_ok,
                stats |-> IF ~is_ok
                          THEN [st1 EXCEPT !.rejected_bitfield_disabled = @ + 1]
                          ELSE st1]
       ELSE [is_ok |-> FALSE,
             stats |-> [st1 EXCEPT !.rejected_no_bitfield = @ + 1]]

\* _check_ok_to_mqtt(envelope, packet) on counters st: [is_ok, stats]
check_ok_to_mqtt(packet, st) ==
    IF ~HasField(packet, "decoded")
    THEN [is_ok |-> FALSE,
          stats |-> [st EXCEPT !.rejected_encrypted = @ + 1]]
    ELSE IF packet.decoded.has_bitfield
    THEN LET is_ok == OkToMqttBit(packet.decoded.bitfield)
         IN [is_ok |-> is_ok,
             stats |-> IF ~is_ok
                       THEN [st EXCEPT !.rejected_bitfield_disabled = @ + 1]
                       ELSE st]
    ELSE [is_ok |-> FALSE,
          stats |-> [st EXCEPT !.rejected_no_bitfield = @ + 1]]

----------------------------------------------------------------------------
(* on_message *)

\* the format specification the debug line of on_message hands to format()
\* for packet.decoded.bitfield
DecodedFormatSpec == "02x if packet.decoded.HasField('bitfield') else 0"

\* the format specifications of an int the code uses that format() accepts
IntFormatSpecs == {"", "02x", "08x"}

\* format(value, spec) raises ValueError for a specification it cannot read
FormatRaises(spec) == spec \notin IntFormatSpecs

\* seconds between two timed statistics summaries
StatsInterval == 30

\* self.stats as __init__ sets it
InitStats ==
    [total |-> 0, forwarded |-> 0, rejected_encrypted |-> 0,
     rejected_no_bitfield |-> 0, rejected_bitfield_disabled |-> 0,
     decrypted |-> 0, decryption_failed |-> 0]

\* an except clause that counts the message it drops as a rejection
DroppedAsRejected(msg, st) ==
    /\ stats' = [st EXCEPT !.rejected_encrypted = @ + 1]
    /\ publish_count' = publish_count
    /\ last_stats_time' = last_stats_time
    /\ last' = [called |-> TRUE, msg |-> msg, raised |-> TRUE,
                checked |-> FALSE, is_ok |-> FALSE,
                tried |-> FALSE, decrypted |-> FALSE, key_index |-> 0,
                packet |-> NoPacket, published |-> <<>>, before |-> stats]

\* what on_message leaves behind when an exception reaches its except
\* clause: the counters as they were when it was raised, nothing published
Dropped(msg, st) ==
    /\ stats' = st
    /\ publish_count' = publish_count
    /\ last_stats_time' = last_stats_time
    /\ last' = [called |-> TRUE, msg |-> msg, raised |-> TRUE,
                checked |-> FALSE, is_ok |-> FALSE,
                tried |-> FALSE, decrypted |-> FALSE, key_index |-> 0,
                packet |-> NoPacket, published |-> <<>>, before |-> stats]

\* publishing outside the test of the verdict
PublishCallsAlways(is_ok, msg, in_topic, out_topic) ==
    <<[topic |-> RewriteTopic(msg.topic, in_topic, out_topic),
       payload |-> msg.payload]>>

\* publishing the envelope serialized again after the in-place decryption
\* of its packet
PublishCallsReserialized(is_ok, msg, in_topic, out_topic) ==
    IF is_ok
    THEN LET envelope == ParseEnvelope(msg.payload).envelope
             dec == decrypt_packet(keys, envelope.packet,
                                   envelope.channel_id, stats)
         IN <<[topic |-> RewriteTopic(msg.topic, in_topic, out_topic),
               payload |-> [wellformed |-> TRUE,
                            envelope |-> [envelope EXCEPT
                                            !.packet = dec.packet]]]>>
    ELSE <<>>

\* the client.publish calls of on_message for a verdict: one call with the
\* rewritten topic and the payload as it came in when the check said yes
PublishCalls(is_ok, msg, in_topic, out_topic) ==
    IF is_ok
    THEN <<[topic |-> RewriteTopic(msg.topic, in_topic, out_topic),
            payload |-> msg.payload]>>
    ELSE <<>>

\* on_message(client, userdata, msg); elapsed is time.time() minus
\* self.last_stats_time at the timed summary. _print_stats only logs and
\* changes nothing the filter keeps.
on_message(msg, elapsed) ==
    LET st0 == [stats EXCEPT !.total = @ + 1]
        parsed == ParseEnvelope(msg.payload)
        envelope == parsed.envelope
        packet == envelope.packet
    IN IF ~parsed.ok
       THEN Dropped(msg, st0)
       ELSE IF HasField(packet, "decoded") /\ FormatRaises(DecodedFormatSpec)
       THEN Dropped(msg, st0)
       ELSE \E tried \in {/\ ~HasField(packet, "decoded")
                          /\ HasField(packet, "encrypted")
                          /\ Len(keys) > 0} :
            \E dec \in {IF tried
                        THEN decrypt_packet(keys, packet,
                                            envelope.channel_id, st0)
                        ELSE [result |-> FALSE, packet |-> packet,
                              stats |-> st0, key_index |-> 0]} :
            \E chk \in {check_ok_to_mqtt(dec.packet, dec.stats)} :
            \E calls \in {PublishCalls(chk.is_ok, msg,
                                       input_topic, output_topic)} :
               /\ stats' = IF chk.is_ok
                           THEN [chk.stats EXCEPT !.forwarded = @ + 1]
                           ELSE chk.stats
               /\ publish_count' = publish_count + Len(calls)
               /\ last_stats_time' =
                      IF show_stats /\ elapsed >= StatsInterval
                      THEN last_stats_time + elapsed
                      ELSE last_stats_time
               /\ last' = [called |-> TRUE, msg |-> msg, raised |-> FALSE,
                           checked |-> TRUE, is_ok |-> chk.is_ok,
                           tried |-> tried, decrypted |-> dec.result,
                           key_index |-> dec.key_index,
                           packet |-> dec.packet,
                           published |-> calls, before |-> stats]

----------------------------------------------------------------------------
(* The messages the broker delivers *)

Nodes == {1, 2}
PacketIds == {1}

\* the Data values senders put in packets
PlainData ==
    {[portnum |-> 1, has_bitfield |-> TRUE, bitfield |-> b] : b \in 0..3}
    \cup {[portnum |-> 1, has_bitfield |-> FALSE, bitfield |-> 0],
          [portnum |-> 0, has_bitfield |-> TRUE, bitfield |-> 1]}

\* the base keys senders encrypt with
SenderKeys == {DEFAULT_KEY, K32, KForeign}

\* the ciphertexts a packet on channel_name with this nonce may carry: every
\* sender Data under every sender key, and bytes that are no encryption
Ciphertexts(channel_name, packet_id, from_id) ==
    {CTR(EffectiveKey(k, channel_name), Nonce(packet_id, from_id),
         SerializeData(d)) : k \in SenderKeys, d \in PlainData}
    \cup {<<>>, <<7>>}

Packets(channel_name) ==
    {[id |-> i, from |-> f, has_decoded |-> FALSE, decoded |-> NoData,
      has_encrypted |-> FALSE, encrypted |-> <<>>] :
        i \in PacketIds, f \in Nodes}
    \cup {[id |-> i, from |-> f, has_decoded |-> TRUE, decoded |-> d,
           has_encrypted |-> FALSE, encrypted |-> <<>>] :
        i \in PacketIds, f \in Nodes, d \in {x \in PlainData : x.portnum # 0}}
    \cup UNION {{[id |-> i, from |-> f, has_decoded |-> FALSE,
                  decoded |-> NoData,
                  has_encrypted |-> TRUE, encrypted |-> c] :
                    c \in Ciphertexts(channel_name, i, f)} :
                i \in PacketIds, f \in Nodes}

Envelopes ==
    UNION {{[channel_id |-> ch, packet |-> p] : p \in Packets(ch)} :
           ch \in ChannelNames}

\* msg.payload: the bytes of an envelope, or bytes that are none
Payloads ==
    {[wellformed |-> TRUE, envelope |-> e] : e \in Envelopes}
    \cup {[wellformed |-> FALSE, envelope |-> NoEnvelope]}

\* msg.topic
Topics == {<<"m", "/", "a">>}

Msgs == {[topic |-> t, payload |-> p] : t \in Topics, p \in Payloads}

\* time.time() - self.last_stats_time when on_message reads the clock
Elapsed == {0, StatsInterval}

----------------------------------------------------------------------------
(* The filter *)

\* the exempt-node set and the allow-no-bitfield flag an operator asks
\* for; __init__ has no parameter for either and no code reads them
ExemptNodesOption == {1}
AllowNoBitfieldOption == TRUE

\* the rejection-record path an operator asks for; __init__ has no parameter
\* for it and no code opens or writes such a file
RejectLogFileOption == "rejects.log"

\* the constructor arguments of the filters the model runs
Configs ==
    LET base == [decrypt_default |-> TRUE, channel_keys |-> <<>>,
                 input_topic |-> <<"m", "/", "#">>,
                 output_topic |-> <<"f", "/", "m">>,
                 show_stats |-> FALSE, exempt_nodes |-> {},
                 allow_no_bitfield |-> FALSE, reject_log_file |-> ""]
    IN {base}
       \cup {[base EXCEPT !.decrypt_default = FALSE]}
       \cup {[base EXCEPT !.channel_keys = ks] :
                ks \in {<<"b64_k32">>, <<"invalid-base64!@#", "b64_k32">>,
                        <<"b64_short", "b64_k16">>}}
       \cup {[base EXCEPT !.decrypt_default = FALSE,
                          !.channel_keys = <<"b64_k32">>]}
       \cup {[base EXCEPT !.input_topic = <<"a", "/", "#">>,
                          !.output_topic = <<"f", "/">>,
                          !.show_stats = TRUE]}
       \cup {[base EXCEPT !.exempt_nodes = ExemptNodesOption,
                          !.allow_no_bitfield = AllowNoBitfieldOption,
                          !.reject_log_file = RejectLogFileOption]}

\* no helper has been called directly
NoCall == [op |-> "none"]

NoLast ==
    [called |-> FALSE,
     msg |-> [topic |-> <<>>,
              payload |-> [wellformed |-> FALSE, envelope |-> NoEnvelope]],
     raised |-> FALSE, checked |-> FALSE, is_ok |-> FALSE,
     tried |-> FALSE, decrypted |-> FALSE, key_index |-> 0,
     packet |-> NoPacket, published |-> <<>>, before |-> InitStats]

Init ==
    \E c \in Configs :
        /\ keys = BuildKeys(c.decrypt_default, c.channel_keys)
        /\ input_topic = c.input_topic
        /\ output_topic = c.output_topic
        /\ show_stats = c.show_stats
        /\ exempt_nodes = c.exempt_nodes
        /\ allow_no_bitfield = c.allow_no_bitfield
        /\ last_stats_time = 0
        /\ stats = InitStats
        /\ publish_count = 0
        /\ last = NoLast
        /\ reject_log_file = c.reject_log_file
        /\ reject_log = <<>>
        /\ call = NoCall

OnMessage ==
    /\ stats.total < MaxMsgs
    /\ \E msg \in Msgs :
         \E elapsed \in (IF /\ show_stats
                             /\ last_stats_time < MaxTimedSummaries * StatsInterval
                          THEN Elapsed ELSE {0}) :
            on_message(msg, elapsed)
    /\ UNCHANGED <<keys, input_topic, output_topic, show_stats,
                   exempt_nodes, allow_no_bitfield,
                   reject_log_file, reject_log, call>>

Next == OnMessage

Spec == Init /\ [][Next]_vars

----------------------------------------------------------------------------
(* The helpers called on their own: key selection, topic rewrite and the
   construction of the key ring, one call on inputs drawn from bounded sets *)

\* the sequences over S of at most n elements
SeqsUpTo(S, n) == UNION {[1..k -> S] : k \in 0..n}

\* the base keys a ring may hold
BaseKeys == {DEFAULT_KEY, K32, K16, KShort, KForeign}

\* msg.topic, self.input_topic and self.output_topic of a rewrite
TopicChars == {"a", "b", "/"}
RewriteTopics == SeqsUpTo(TopicChars, MaxTopicLen) \ {<<>>}
InputTopics ==
    {<<"a", "/", "#">>, <<"a">>, <<"#">>, <<"b", "/">>,
     <<"a", "/", "b", "/", "#">>}
OutputTopics == {<<"f", "/", "#">>, <<"f">>, <<"f", "/", "a">>}

\* the channel_keys arguments of a construction
KeyStrings == {"b64_k32", "b64_short", "invalid-base64!@#"}
ChannelKeyLists == SeqsUpTo(KeyStrings, MaxChannelKeys)

\* the key the trial loop hands to the cipher for a ring key and a channel
\* name
SelectKey ==
    /\ call = NoCall
    /\ \E base_key \in BaseKeys : \E channel_name \in ChannelNames :
          call' = [op |-> "trial_key", base_key |-> base_key,
                   channel_name |-> channel_name,
                   result |-> EffectiveKey(base_key, channel_name)]
    /\ UNCHANGED <<keys, input_topic, output_topic, show_stats,
                   last_stats_time, stats, exempt_nodes, allow_no_bitfield,
                   publish_count, last, reject_log_file, reject_log>>

\* _derive_key(base_key, channel_name)
DeriveKey ==
    /\ call = NoCall
    /\ \E base_key \in BaseKeys : \E channel_name \in ChannelNames :
          call' = [op |-> "_derive_key", base_key |-> base_key,
                   channel_name |-> channel_name,
                   result |-> derive_key(base_key, channel_name)]
    /\ UNCHANGED <<keys, input_topic, output_topic, show_stats,
                   last_stats_time, stats, exempt_nodes, allow_no_bitfield,
                   publish_count, last, reject_log_file, reject_log>>

\* the output topic on_message computes for a forwarded message
Rewrite ==
    /\ call = NoCall
    /\ \E topic \in RewriteTopics : \E in_topic \in InputTopics :
       \E out_topic \in OutputTopics :
          call' = [op |-> "rewrite", topic |-> topic,
                   input_topic |-> in_topic, output_topic |-> out_topic,
                   result |-> RewriteTopic(topic, in_topic, out_topic)]
    /\ UNCHANGED <<keys, input_topic, output_topic, show_stats,
                   last_stats_time, stats, exempt_nodes, allow_no_bitfield,
                   publish_count, last, reject_log_file, reject_log>>

\* __init__ building self.keys from decrypt_default and channel_keys
Construct ==
    /\ call = NoCall
    /\ \E decrypt_default \in BOOLEAN : \E channel_keys \in ChannelKeyLists :
          /\ keys' = BuildKeys(decrypt_default, channel_keys)
          /\ call' = [op |-> "__init__", decrypt_default |-> decrypt_default,
                      channel_keys |-> channel_keys]
    /\ UNCHANGED <<input_topic, output_topic, show_stats,
                   last_stats_time, stats, exempt_nodes, allow_no_bitfield,
                   publish_count, last, reject_log_file, reject_log>>

\* the parameters of __init__ besides self
InitParameters ==
    {"broker", "port", "input_topic", "output_topic", "username", "password",
     "client_id", "show_stats", "decrypt_default", "channel_keys"}

\* the attributes __init__ assigns
InitAttributes ==
    {"broker", "port", "input_topic", "output_topic", "username", "password",
     "show_stats", "keys", "stats", "last_stats_time", "client"}

\* MeshtasticMQTTFilter(..., name=value): a keyword that is no parameter of
\* __init__ raises TypeError and no filter is built
init_with(name) ==
    IF name \in InitParameters
    THEN [raised |-> FALSE, attributes |-> InitAttributes]
    ELSE [raised |-> TRUE, attributes |-> {}]

\* the exempt-node strings an operator writes
ExemptNodeStrings == {"0x12345678", "!12345678", "305419896", "0x00000002",
                      "invalid"}

\* the optional keyword arguments a construction is given
OptionalArguments ==
    {[name |-> "exempt_nodes", value |-> v] :
        v \in SeqsUpTo(ExemptNodeStrings, MaxExemptNodes)}
    \cup {[name |-> "reject_log_file", value |-> RejectLogFileOption],
          [name |-> "allow_no_bitfield", value |-> AllowNoBitfieldOption],
          [name |-> "show_stats", value |-> TRUE]}

\* the construction of a filter with one optional keyword argument
ConstructWith ==
    /\ call = NoCall
    /\ \E arg \in OptionalArguments : \E built \in {init_with(arg.name)} :
          call' = [op |-> "__init__ with", name |-> arg.name,
                   value |-> arg.value, raised |-> built.raised,
                   attributes |-> built.attributes]
    /\ UNCHANGED <<keys, input_topic, output_topic, show_stats,
                   last_stats_time, stats, exempt_nodes, allow_no_bitfield,
                   publish_count, last, reject_log_file, reject_log>>

InitCalls ==
    /\ Init
    /\ keys = BuildKeys(TRUE, <<>>)
    /\ input_topic = <<"m", "/", "#">>
    /\ exempt_nodes = {}

NextCalls == SelectKey \/ DeriveKey \/ Rewrite \/ Construct \/ ConstructWith

SpecCalls == InitCalls /\ [][NextCalls]_vars

----------------------------------------------------------------------------
(* Vocabulary of the properties *)

\* a counter of a counter bag; one the bag does not keep was never counted
StatOf(st, k) == IF k \in DOMAIN st THEN st[k] ELSE 0

RejectedCounters ==
    {"rejected_encrypted", "rejected_no_bitfield", "rejected_bitfield_disabled"}

OutcomeCounters == {"forwarded", "forwarded_exempt"} \cup RejectedCounters

OutcomeSum(st) ==
    StatOf(st, "forwarded") + StatOf(st, "forwarded_exempt")
    + StatOf(st, "rejected_encrypted") + StatOf(st, "rejected_no_bitfield")
    + StatOf(st, "rejected_bitfield_disabled")

\* how much counter k grows in a step
Delta(k) == StatOf(stats', k) - StatOf(stats, k)

\* the packet of a call's message as it arrived
Arrived(l) == l.msg.payload.envelope.packet

\* how much the last call made counter k grow: the counters now against the
\* counters when the call began
Counted(k) == StatOf(stats, k) - StatOf(last.before, k)

\* the call reached the admission check, for a sender that is / is not exempt
CheckedExempt(l) == l.called /\ l.checked /\ Arrived(l).from \in exempt_nodes
CheckedNonExempt(l) ==
    l.called /\ l.checked /\ Arrived(l).from \notin exempt_nodes

----------------------------------------------------------------------------
(* C1 *)

\* C1: every packet whose sender is in the exempt-node set gets a forwarding
\* verdict from the admission check and forwarded_exempt grows by one,
\* whether the packet has decoded Data, is still encrypted or has bit 0 of
\* its bitfield clear.
C1_ExemptAlwaysForwarded ==
    [][CheckedExempt(last') =>
         /\ last'.is_ok
         /\ Delta("forwarded_exempt") = 1]_vars

----------------------------------------------------------------------------
(* C2 *)

\* C2: for a non-exempt packet with decoded Data that carries a bitfield the
\* admission check depends on bit 0 alone: bit 0 set returns True and no
\* rejected_* counter changes; bit 0 clear returns False and
\* rejected_bitfield_disabled grows by exactly 1 (the other rejected_*
\* counters unchanged), whatever the other bits are.
C2_BitZeroDecides ==
    [][(/\ CheckedNonExempt(last')
        /\ last'.packet.has_decoded
        /\ last'.packet.decoded.has_bitfield) =>
         IF last'.packet.decoded.bitfield % 2 = 1
         THEN /\ last'.is_ok
              /\ \A k \in RejectedCounters : Delta(k) = 0
         ELSE /\ ~last'.is_ok
              /\ Delta("rejected_bitfield_disabled") = 1
              /\ Delta("rejected_encrypted") = 0
              /\ Delta("rejected_no_bitfield") = 0]_vars

\* a packet whose bitfield has bit 1 set and bit 0 clear was rejected after
\* one whose bitfield has both bits set was forwarded
C2_Witness ==
    /\ CheckedNonExempt(last)
    /\ last.packet.has_decoded
    /\ last.packet.decoded.has_bitfield
    /\ last.packet.decoded.bitfield = 2
    /\ ~last.is_ok
    /\ stats.rejected_bitfield_disabled = 1
    /\ stats.forwarded = 1

----------------------------------------------------------------------------
(* C3 *)

\* C3: a non-exempt packet that has no decoded Data when the admission check
\* runs (decryption not attempted, skipped, or failed with every key) is
\* rejected as encrypted: rejected_encrypted grows by exactly 1, nothing is
\* published, the handler returns without an exception, and the step after
\* such a rejection is again the processing of a message.
C3_UndecodedRejected ==
    [][/\ (CheckedNonExempt(last') /\ ~last'.packet.has_decoded) =>
            /\ ~last'.is_ok
            /\ ~last'.raised
            /\ Delta("rejected_encrypted") = 1
            /\ Delta("rejected_no_bitfield") = 0
            /\ Delta("rejected_bitfield_disabled") = 0
            /\ Delta("forwarded") = 0
            /\ last'.published = <<>>
            /\ publish_count' = publish_count
       /\ (CheckedNonExempt(last) /\ ~last.packet.has_decoded) =>
            /\ last'.called
            /\ Delta("total") = 1]_vars

\* a packet no key of the ring decrypts was rejected as encrypted, after an
\* earlier packet had been rejected as encrypted too
C3_Witness ==
    /\ CheckedNonExempt(last)
    /\ last.tried
    /\ ~last.decrypted
    /\ ~last.packet.has_decoded
    /\ last.packet.has_encrypted
    /\ stats.decryption_failed = 1
    /\ stats.rejected_encrypted = 2
    /\ publish_count = 0

----------------------------------------------------------------------------
(* C4 *)

\* C4: for a non-exempt packet with decoded Data that carries no bitfield the
\* verdict follows the allow-no-bitfield option: when it is false the packet
\* is rejected and rejected_no_bitfield grows by exactly 1, when it is true
\* the packet is forwarded.
C4_NoBitfieldFollowsOption ==
    [][(/\ CheckedNonExempt(last')
        /\ last'.packet.has_decoded
        /\ ~last'.packet.decoded.has_bitfield) =>
         IF allow_no_bitfield
         THEN last'.is_ok
         ELSE /\ ~last'.is_ok
              /\ Delta("rejected_no_bitfield") = 1]_vars

----------------------------------------------------------------------------
(* C5 *)

\* C5: on_message publishes a message if and only if its admission verdict
\* is a forwarding one: a rejected message and a message that got no verdict
\* cause no publish, a forwarded message causes exactly one.
C5_PublishIffForward ==
    [][IF last'.checked /\ last'.is_ok
       THEN /\ publish_count' = publish_count + 1
            /\ Len(last'.published) = 1
       ELSE /\ publish_count' = publish_count
            /\ last'.published = <<>>]_vars

\* a forwarded message followed by a rejected one: one publish in all
C5_Witness ==
    /\ last.called
    /\ last.checked
    /\ ~last.is_ok
    /\ stats.forwarded = 1
    /\ publish_count = 1
    /\ stats.total = 2

----------------------------------------------------------------------------
(* C6 *)

\* C6: a well-formed envelope whose packet arrives with decoded Data
\* (portnum nonzero) and bit 0 of its bitfield set is published exactly once
\* on the rewritten topic and forwarded grows by exactly 1; no step between
\* parsing and the admission check drops it.
C6_DecodedArrivalForwarded ==
    [][(/\ last'.called
        /\ last'.msg.payload.wellformed
        /\ Arrived(last').has_decoded
        /\ Arrived(last').decoded.portnum # 0
        /\ Arrived(last').decoded.has_bitfield
        /\ Arrived(last').decoded.bitfield % 2 = 1) =>
         /\ last'.published =
                <<[topic |-> RewriteTopic(last'.msg.topic,
                                          input_topic, output_topic),
                   payload |-> last'.msg.payload]>>
         /\ publish_count' = publish_count + 1
         /\ Delta("forwarded") = 1]_vars

----------------------------------------------------------------------------
(* C7 *)

\* C7: after any sequence of messages total equals forwarded +
\* forwarded_exempt + rejected_encrypted + rejected_no_bitfield +
\* rejected_bitfield_disabled.
C7_CounterConservation == stats.total = OutcomeSum(stats)

----------------------------------------------------------------------------
(* C8 *)

\* C8: each message processed by on_message makes total grow by exactly 1
\* and exactly one outcome counter, the one of its verdict, grow by exactly
\* 1, the other outcome counters staying as they are. (Stated for the
\* messages whose payload is a ServiceEnvelope.)
C8_OneCounterPerMessage ==
    [][/\ Delta("total") = 1
       /\ last'.msg.payload.wellformed =>
          \E k \in OutcomeCounters :
            /\ Delta(k) = 1
            /\ \A j \in OutcomeCounters \ {k} : Delta(j) = 0
            /\ (k \in RejectedCounters) = ~last'.is_ok]_vars

----------------------------------------------------------------------------
(* C9 *)

----------------------------------------------------------------------------
(* C10 *)

\* C10: forwarded counts every published message, those forwarded by
\* exemption included: a message of an exempt sender makes both forwarded
\* and forwarded_exempt grow by one, forwarded equals the number of
\* publishes and forwarded_exempt is at most forwarded.
C10_ForwardedCountsExempt ==
    [][/\ StatOf(stats', "forwarded") = publish_count'
       /\ StatOf(stats', "forwarded_exempt") <= StatOf(stats', "forwarded")
       /\ CheckedExempt(last') =>
            /\ Delta("forwarded") = 1
            /\ Delta("forwarded_exempt") = 1
            /\ publish_count' = publish_count + 1]_vars

----------------------------------------------------------------------------
(* C11 *)

\* the channel name of a call's envelope
ChannelOf(l) == l.msg.payload.envelope.channel_id

\* the Data values with a nonzero portnum
ValidData == {d \in PlainData : d.portnum # 0}

\* the call's packet arrived carrying the counter-mode encryption of d under
\* the effective key of base key k for the envelope's channel name, with the
\* nonce of the packet's id and sender
ArrivedEncryptedWith(l, k, d) ==
    /\ l.called
    /\ l.msg.payload.wellformed
    /\ ~Arrived(l).has_decoded
    /\ Arrived(l).has_encrypted
    /\ EffectiveKey(k, ChannelOf(l)).len \in AESKeyLengths
    /\ Arrived(l).encrypted =
           CTR(EffectiveKey(k, ChannelOf(l)),
               Nonce(Arrived(l).id, Arrived(l).from), SerializeData(d))

\* the call decrypted its packet to d
DecryptedTo(l, d) ==
    /\ l.decrypted
    /\ l.packet.has_decoded
    /\ l.packet.decoded = d
    /\ ~l.packet.has_encrypted
    /\ l.packet.encrypted = <<>>

\* base key k yields a Data with nonzero portnum for the ciphertext of the
\* call's packet as it arrived
Yields(l, k) ==
    /\ EffectiveKey(k, ChannelOf(l)).len \in AESKeyLengths
    /\ LET parsed == ParseData(CTR(EffectiveKey(k, ChannelOf(l)),
                                   Nonce(Arrived(l).id, Arrived(l).from),
                                   Arrived(l).encrypted))
       IN parsed.ok /\ parsed.data.portnum # 0

\* the ring positions before position i whose key yields such a Data
AcceptingBefore(l, i) == {j \in 1..(i - 1) : Yields(l, keys[j].key)}

\* C11 as stated: for any Data d with nonzero portnum and any key k of the
\* ring, at any position, a packet carrying the encryption of d under the
\* effective key of k is decrypted: _decrypt_packet returns True, the packet
\* has decoded equal to d and no encrypted field, and decrypted grows by
\* exactly 1.
C11_RoundTripAnyPosition ==
    \A i \in 1..Len(keys) : \A d \in ValidData :
        ArrivedEncryptedWith(last, keys[i].key, d) =>
           /\ DecryptedTo(last, d)
           /\ Counted("decrypted") = 1

\* C11, amended: the round trip holds for a key k of the ring when no key
\* before it in the ring yields a Data with nonzero portnum for the same
\* ciphertext; then _decrypt_packet returns True, the packet has decoded
\* equal to d and no encrypted field, and decrypted grows by exactly 1.
C11_RoundTripFirstAccepting ==
    \A i \in 1..Len(keys) : \A d \in ValidData :
        (/\ ArrivedEncryptedWith(last, keys[i].key, d)
         /\ AcceptingBefore(last, i) = {}) =>
           /\ DecryptedTo(last, d)
           /\ last.key_index = i
           /\ Counted("decrypted") = 1
           /\ Counted("decryption_failed") = 0

\* a packet encrypted under the second key of the ring was decrypted to the
\* Data its sender encrypted
C11_Witness ==
    /\ Len(keys) >= 2
    /\ \E d \in ValidData :
          /\ ArrivedEncryptedWith(last, keys[2].key, d)
          /\ DecryptedTo(last, d)
    /\ last.key_index = 2
    /\ stats.decrypted = 1

----------------------------------------------------------------------------
(* C12 *)

\* the call ran _decrypt_packet on a non-empty ciphertext with a non-empty
\* ring, and no key of the ring yields a Data with nonzero portnum
KeyMiss(l) ==
    /\ l.called
    /\ l.tried
    /\ Len(Arrived(l).encrypted) > 0
    /\ Len(keys) > 0
    /\ \A i \in 1..Len(keys) : ~Yields(l, keys[i].key)

\* C12: when _decrypt_packet runs on a non-empty ciphertext with a non-empty
\* ring in which no key yields a parseable Data with nonzero portnum, it
\* returns False, decryption_failed grows by exactly 1 whatever the number
\* of keys, decrypted stays as it is and the packet is as it was before the
\* call: the same encrypted bytes, no decoded field.
C12_KeyMiss ==
    KeyMiss(last) =>
        /\ ~last.decrypted
        /\ Counted("decryption_failed") = 1
        /\ Counted("decrypted") = 0
        /\ last.packet = Arrived(last)
        /\ last.packet.has_encrypted
        /\ ~last.packet.has_decoded

\* a ring of three keys missed a packet: one failure counted, the packet as
\* it arrived
C12_Witness ==
    /\ KeyMiss(last)
    /\ Len(keys) = 3
    /\ ~last.decrypted
    /\ last.packet = Arrived(last)
    /\ stats.total = 1
    /\ stats.decryption_failed = 1
    /\ stats.decrypted = 0

----------------------------------------------------------------------------
(* C13 *)

----------------------------------------------------------------------------
(* C14 *)

\* p is a literal prefix of t
IsPrefix(p, t) == Len(p) <= Len(t) /\ SubSeq(t, 1, Len(p)) = p

\* a configured topic without its wildcard suffix
Stripped(topic) == rstrip(topic, {"/", "#"})

\* C14: for every inbound topic T, inbound prefix I and outbound prefix O
\* (both without their wildcard suffix) the published topic is O followed by
\* the rest of T when I is a literal prefix of T, and T unchanged when I is
\* not a literal prefix of T, also when I occurs only later inside T.
C14_TopicRewrite ==
    call.op = "rewrite" =>
        call.result =
            IF IsPrefix(Stripped(call.input_topic), call.topic)
            THEN Stripped(call.output_topic)
                 \o SubSeq(call.topic, Len(Stripped(call.input_topic)) + 1,
                           Len(call.topic))
            ELSE call.topic

----------------------------------------------------------------------------
(* C15 *)

\* the supply positions (from 0) of the channel keys that decode
Decodable(channel_keys) ==
    {i \in 0..(Len(channel_keys) - 1) : b64decode(channel_keys[i + 1]).ok}

\* the n-th (from 1) decodable supply position
NthDecodable(channel_keys, n) ==
    CHOOSE i \in Decodable(channel_keys) :
        Cardinality({j \in Decodable(channel_keys) : j < i}) = n - 1

\* C15: the ring built by __init__ holds the entry 'default' first if and
\* only if the default key is enabled, then one entry 'custom-i' for every
\* supplied key that decodes, in supply order; a supplied key that does not
\* decode is left out, the construction goes on and the key does not count
\* toward the ring.
C15_KeyRingConstruction ==
    call.op = "__init__" =>
        LET off == IF call.decrypt_default THEN 1 ELSE 0
            valid == Decodable(call.channel_keys)
        IN /\ Len(keys) = off + Cardinality(valid)
           /\ call.decrypt_default =>
                 keys[1] = [name |-> <<"default", 0>>, key |-> DEFAULT_KEY]
           /\ \A p \in 1..Len(keys) :
                 (keys[p].name = <<"default", 0>>) =
                     (call.decrypt_default /\ p = 1)
           /\ \A n \in 1..Cardinality(valid) :
                 LET i == NthDecodable(call.channel_keys, n)
                 IN keys[off + n] =
                        [name |-> <<"custom", i>>,
                         key |-> b64decode(call.channel_keys[i + 1]).key]

\* the default key enabled and one supplied key that does not decode, then
\* one that does: a ring of two, the second entry named for supply
\* position 1
C15_Witness ==
    /\ call.op = "__init__"
    /\ call.decrypt_default
    /\ call.channel_keys = <<"invalid-base64!@#", "b64_k32">>
    /\ Len(keys) = 2
    /\ keys[2] = [name |-> <<"custom", 1>>, key |-> K32]

----------------------------------------------------------------------------
(* C16 *)

----------------------------------------------------------------------------
(* C17 *)

\* the node address an exempt-node string stands for, 0 for a string in none
\* of the three forms
NodeNumber(str) ==
    CASE str \in {"0x12345678", "!12345678", "305419896"} -> 305419896
      [] str = "0x00000002" -> 2
      [] OTHER -> 0

\* the addresses of the valid entries of a list of exempt-node strings
ValidNodes(strs) ==
    {NodeNumber(strs[i]) : i \in 1..Len(strs)} \ {0}

\* C17: a filter constructed with exempt-node strings is built, whatever the
\* strings, and its exempt-node set holds exactly the addresses of the valid
\* entries: '0x12345678', '!12345678' and '305419896' give the same address,
\* an entry in none of the forms is left out.
C17_ExemptNodesNormalised ==
    (call.op = "__init__ with" /\ call.name = "exempt_nodes") =>
        /\ ~call.raised
        /\ "exempt_nodes" \in call.attributes
        /\ call.exempt_nodes = ValidNodes(call.value)

----------------------------------------------------------------------------
(* C18 *)

\* the call ended in a rejection by the admission check
Rejected(l) == l.called /\ l.checked /\ ~l.is_ok

\* C18: with a rejection-record path configured the filter has a reject
\* logger and every rejected message appends exactly one entry, that of its
\* sender, to the record, whose earlier entries stay as they are; without a
\* path the filter's reject logger is None and no entry is written.
C18_RejectionRecord ==
    [][/\ "reject_logger" \in InitAttributes
       /\ IF reject_log_file # ""
          THEN /\ SubSeq(reject_log', 1, Len(reject_log)) = reject_log
               /\ Len(reject_log') =
                      Len(reject_log) + (IF Rejected(last') THEN 1 ELSE 0)
               /\ Rejected(last') =>
                      reject_log'[Len(reject_log')].sender = Arrived(last').from
          ELSE reject_log' = <<>>]_vars

----------------------------------------------------------------------------
(* C19 *)

\* the ring positions whose key yields a Data with nonzero portnum for the
\* call's packet as it arrived
Accepting(l) == {i \in 1..Len(keys) : Yields(l, keys[i].key)}

\* the Data base key k yields for the call's packet as it arrived
YieldedData(l, k) ==
    ParseData(CTR(EffectiveKey(k, ChannelOf(l)),
                  Nonce(Arrived(l).id, Arrived(l).from),
                  Arrived(l).encrypted)).data

\* the call ran the trial loop of _decrypt_packet
TrialLoopRan(l) == l.called /\ l.tried /\ Len(Arrived(l).encrypted) > 0

\* C19: the trial loop takes the keys in ring order and stops at the first
\* key that yields a Data with nonzero portnum, passing over every key whose
\* plaintext does not parse or has portnum 0: the packet's decoded field is
\* the Data of that first key, whatever a later key would yield, decrypted
\* grows by exactly 1 and decryption_failed stays as it is.
C19_TrialOrder ==
    (TrialLoopRan(last) /\ Accepting(last) # {}) =>
        /\ last.decrypted
        /\ last.key_index \in Accepting(last)
        /\ \A j \in Accepting(last) : last.key_index <= j
        /\ last.packet.has_decoded
        /\ last.packet.decoded = YieldedData(last, keys[last.key_index].key)
        /\ ~last.packet.has_encrypted
        /\ Counted("decrypted") = 1
        /\ Counted("decryption_failed") = 0

\* two keys of the ring yield different Data for a packet, and the packet
\* has the Data of the one that comes first
C19_Witness ==
    /\ TrialLoopRan(last)
    /\ last.decrypted
    /\ \E i \in Accepting(last) : \E j \in Accepting(last) :
          /\ i < j
          /\ last.key_index = i
          /\ YieldedData(last, keys[i].key) # YieldedData(last, keys[j].key)
          /\ last.packet.decoded = YieldedData(last, keys[i].key)
    /\ stats.decrypted = 1
    /\ stats.decryption_failed = 0

----------------------------------------------------------------------------
(* C20 *)

\* the last call ran the trial loop: one of its two counters moved
TrialCounted == Counted("decrypted") # 0 \/ Counted("decryption_failed") # 0

\* C20: within on_message the trial loop runs only for a packet that has no
\* decoded Data and has a non-empty ciphertext; a packet that arrives
\* decoded changes neither decrypted nor decryption_failed and is not
\* altered; with an empty ring no trial runs, the packet stays encrypted and
\* goes to the admission check, which rejects it as encrypted.
C20_DecryptionTrigger ==
    /\ TrialCounted =>
         /\ last.called
         /\ last.msg.payload.wellformed
         /\ ~Arrived(last).has_decoded
         /\ Arrived(last).has_encrypted
         /\ Len(Arrived(last).encrypted) > 0
         /\ Len(keys) > 0
    /\ (/\ last.called
        /\ last.msg.payload.wellformed
        /\ Arrived(last).has_decoded) =>
         /\ ~TrialCounted
         /\ ~last.tried
         /\ ~last.decrypted
         /\ last.checked => last.packet = Arrived(last)
    /\ (/\ last.called
        /\ last.msg.payload.wellformed
        /\ ~Arrived(last).has_decoded
        /\ Arrived(last).has_encrypted
        /\ Len(keys) = 0) =>
         /\ ~TrialCounted
         /\ ~last.tried
         /\ last.packet = Arrived(last)
         /\ last.packet.has_encrypted
         /\ last.checked
         /\ ~last.is_ok
         /\ Counted("rejected_encrypted") = 1

\* a filter with an empty ring got a packet the default key would decrypt:
\* no trial was counted, the packet is as it arrived and was rejected as
\* encrypted
C20_Witness ==
    /\ Len(keys) = 0
    /\ \E d \in ValidData : ArrivedEncryptedWith(last, DEFAULT_KEY, d)
    /\ ~last.tried
    /\ last.checked
    /\ ~last.is_ok
    /\ last.packet = Arrived(last)
    /\ stats.rejected_encrypted = 1
    /\ stats.decrypted = 0
    /\ stats.decryption_failed = 0

----------------------------------------------------------------------------
(* C21 *)

\* a packet has both payload fields set
BothStates(packet) == packet.has_decoded /\ packet.has_encrypted

\* C21: a packet never has both its encrypted and its decoded field set, as
\* it arrives, between the two assignments of a successful decryption and
\* when it reaches the admission check; the only change processing makes to
\* a packet is from encrypted to decoded, by a successful decryption, and a
\* packet with decoded Data never gets an encrypted field.
C21_PayloadStates ==
    /\ last.called => ~BothStates(Arrived(last))
    /\ (last.called /\ last.checked) =>
        /\ ~BothStates(last.packet)
        /\ ~BothStates(CopyFromDecoded(Arrived(last), last.packet.decoded))
        /\ last.packet # Arrived(last) =>
              /\ last.decrypted
              /\ Arrived(last).has_encrypted
              /\ ~Arrived(last).has_decoded
              /\ last.packet.has_decoded
              /\ ~last.packet.has_encrypted
              /\ last.packet.id = Arrived(last).id
              /\ last.packet.from = Arrived(last).from
        /\ last.decrypted => last.packet # Arrived(last)
        /\ Arrived(last).has_decoded => ~last.packet.has_encrypted

\* a packet that arrived encrypted reached the admission check decoded and
\* without its encrypted field
C21_Witness ==
    /\ last.called
    /\ last.checked
    /\ last.decrypted
    /\ Arrived(last).has_encrypted
    /\ Len(Arrived(last).encrypted) > 0
    /\ last.packet.has_decoded
    /\ ~last.packet.has_encrypted
    /\ last.packet.encrypted = <<>>

----------------------------------------------------------------------------
(* C22 *)

\* C22: the payload published for a forwarded message is the payload of the
\* inbound message as it came, also when the packet was decrypted during
\* processing.
C22_PayloadUnchanged ==
    (last.called /\ last.checked /\ last.is_ok) =>
        /\ Len(last.published) = 1
        /\ last.published[1].payload = last.msg.payload

\* a message whose packet was decrypted was forwarded, and what was published
\* still carries the ciphertext and no decoded Data
C22_Witness ==
    /\ last.called
    /\ last.is_ok
    /\ last.decrypted
    /\ last.packet.has_decoded
    /\ Len(last.published) = 1
    /\ last.published[1].payload = last.msg.payload
    /\ last.published[1].payload.envelope.packet.has_encrypted
    /\ ~last.published[1].payload.envelope.packet.has_decoded

----------------------------------------------------------------------------
(* C23 *)

====
